---- MODULE Spec2Model ----
(***************************************************************************)
(* Model of main.py: one run of the WooCommerce -> TRMNL plugin.           *)
(*   main -> get_woocommerce_data (order pages, metrics, product pages,    *)
(*   low-stock list, payload) -> send_to_trmnl.                            *)
(* Money is carried in cents; stdout keeps the error, warning and debug    *)
(* lines (the per-page progress lines are left out).                       *)
(***************************************************************************)
EXTENDS Integers, Sequences, FiniteSets, TLC

\* ---------------------------------------------------------------- bounds
\* Number of leading order pages whose content the upstream picks freely;
\* later pages all carry FillerOrderPage.
MaxVariedOrderPages == 1
\* The same for product pages.
MaxVariedProductPages == 1
\* Longest product list handed to the low-stock filter in SpecProducts.
MaxListedProducts == 2
\* Longest order list handed to the metrics in SpecOrders.
MaxListedOrders == 3

\* ------------------------------------------------------ program constants
OrderPageLimit == 100
ProductPageLimit == 5
DefaultLowStockThreshold == 5
TopN == 5
HTTP_OK == 200

\* ------------------------------------------------------------ JSON values
None == <<>>
\* Num: a value float() accepts; NonNumeric: a string float() rejects;
\* Null: JSON null; Missing: the key is absent from the record.
Num(n) == [kind |-> "num", val |-> n]
NonNumeric == [kind |-> "str", val |-> 0]
Null == [kind |-> "null", val |-> 0]
Missing == [kind |-> "missing", val |-> 0]

Item(q) == [quantity |-> q]
Order(s, t, items) == [status |-> s, total |-> t, line_items |-> items]
Product(n, stock, low) == [name |-> n, stock_quantity |-> stock, low_stock_amount |-> low]

\* ------------------------------------------------- what the upstream holds
OrderPageA ==
  << Order("completed", Num(1050), <<Item(Num(2)), Item(Num(1))>>),
     Order("cancelled", Num(500), <<Item(Num(3))>>) >>
OrderPageB ==
  << Order("pending", NonNumeric, <<Item(Num(1))>>) >>
OrderPageC ==
  << Order("processing", Missing, <<Item(Missing)>>),
     Order("pending", Num(725), <<>>),
     Order("refunded", Num(300), <<Item(Num(4))>>) >>
FillerOrderPage ==
  << Order("completed", Num(100), <<Item(Num(1))>>) >>
OrderPageSet == {OrderPageA, OrderPageB, OrderPageC}

ProductPageA ==
  << Product("Widget", Num(2), Null),
     Product("Gadget", Num(9), Num(10)),
     Product("Bolt", Num(0), Num(0)) >>
ProductPageB ==
  << Product("Nut", Null, Null),
     Product("Cog", Num(6), Null),
     Product("Pin", Num(2), Num(1)),
     Product("Back", Num(-1), Null),
     Product("Tag", NonNumeric, Null) >>
FillerProductPage ==
  << Product("Gear", Num(2), Null),
     Product("Axle", Num(1), Null) >>
ProductPageSet == {ProductPageA, ProductPageB}

OrderPagesAt(p) == IF p <= MaxVariedOrderPages THEN OrderPageSet ELSE {FillerOrderPage}
ProductPagesAt(p) == IF p <= MaxVariedProductPages THEN ProductPageSet ELSE {FillerProductPage}

\* An HTTP exchange: kind "resp" (a response came back) or "exc" (the call
\* raised: transport failure or timeout).  json says whether the body parses
\* as JSON; body is the parsed array (empty for an error object).
Resp(st, js, b) == [kind |-> "resp", status |-> st, json |-> js, body |-> b]
Raised == [kind |-> "exc", status |-> 0, json |-> FALSE, body |-> <<>>]
ErrorStatuses == {500}
ErrorResps == {Resp(st, js, <<>>) : st \in ErrorStatuses, js \in BOOLEAN}
OrderResps(p) ==
  {Resp(HTTP_OK, TRUE, b) : b \in OrderPagesAt(p) \cup {<<>>}}
    \cup {Resp(HTTP_OK, FALSE, <<>>), Raised} \cup ErrorResps
ProductResps(p) ==
  {Resp(HTTP_OK, TRUE, b) : b \in ProductPagesAt(p) \cup {<<>>}}
    \cup {Resp(HTTP_OK, FALSE, <<>>), Raised} \cup ErrorResps
WebhookStatuses == {200, 204, 500}
WebhookResps == {Resp(st, TRUE, <<>>) : st \in WebhookStatuses} \cup {Raised}
Times == {"2026-01-01 09:00"}

VARIABLES DEBUG, pc, page, all_orders, all_products, metrics, data,
          http, stdout, sent, order_stop, product_stop

vars == <<DEBUG, pc, page, all_orders, all_products, metrics, data,
          http, stdout, sent, order_stop, product_stop>>

\* ------------------------------------------------------------ aggregation
\* order.get("total", 0)
GetTotal(order) == IF order.total.kind = "missing" THEN Num(0) ELSE order.total
\* float() that would coerce a bad value instead of raising
FloatRaisesNever(v) == FALSE
\* float(v) raises ValueError on a non-numeric string, TypeError on None
FloatRaises(v) == v.kind \in {"str", "null"}
Float(v) == v.val
\* item.get("quantity", 0)
GetQuantity(item) == IF item.quantity.kind = "missing" THEN 0 ELSE item.quantity.val

RECURSIVE SumTotals(_)
SumTotals(orders) ==
  IF orders = <<>> THEN 0
  ELSE Float(GetTotal(Head(orders))) + SumTotals(Tail(orders))

TotalsRaise(orders) == \E i \in 1..Len(orders) : FloatRaises(GetTotal(orders[i]))

RECURSIVE CountNot(_, _)
CountNot(orders, s) ==
  IF orders = <<>> THEN 0
  ELSE (IF Head(orders).status # s THEN 1 ELSE 0) + CountNot(Tail(orders), s)
\* a count that would leave cancelled orders out
TotalOrdersNonCancelled(orders) == CountNot(orders, "cancelled")
TotalOrders(orders) == Len(orders)

RECURSIVE CountStatus(_, _)
CountStatus(orders, s) ==
  IF orders = <<>> THEN 0
  ELSE (IF Head(orders).status = s THEN 1 ELSE 0) + CountStatus(Tail(orders), s)

\* a loop body that would assign instead of adding: the last item wins
SumQuantitiesLastWins(items) ==
  IF items = <<>> THEN 0 ELSE GetQuantity(items[Len(items)])

RECURSIVE SumQuantities(_)
SumQuantities(items) ==
  IF items = <<>> THEN 0
  ELSE GetQuantity(Head(items)) + SumQuantities(Tail(items))

RECURSIVE ProductsSold(_)
ProductsSold(orders) ==
  IF orders = <<>> THEN 0
  ELSE SumQuantities(Head(orders).line_items) + ProductsSold(Tail(orders))

\* metrics that would count processing orders as pending too
MetricsPendingWithProcessing(orders) ==
  [total_sales |-> SumTotals(orders),
   total_orders |-> TotalOrders(orders),
   pending_orders |-> CountStatus(orders, "pending") + CountStatus(orders, "processing"),
   processing_orders |-> CountStatus(orders, "processing"),
   fulfilled_orders |-> CountStatus(orders, "completed"),
   products_sold |-> ProductsSold(orders)]

Metrics(orders) ==
  [total_sales |-> SumTotals(orders),
   total_orders |-> TotalOrders(orders),
   pending_orders |-> CountStatus(orders, "pending"),
   processing_orders |-> CountStatus(orders, "processing"),
   fulfilled_orders |-> CountStatus(orders, "completed"),
   products_sold |-> ProductsSold(orders)]

\* ---------------------------------------------------------------- low stock
\* stock_qty is not None and isinstance(stock_qty, (int, float))
HasStock(product) == product.stock_quantity.kind = "num"
\* a default that would also replace an explicit threshold of 0 ("or 5")
ThresholdFalsyDefault(product) ==
  IF product.low_stock_amount.kind = "num" /\ product.low_stock_amount.val # 0
    THEN product.low_stock_amount.val
    ELSE DefaultLowStockThreshold
Threshold(product) ==
  IF product.low_stock_amount.kind = "num" THEN product.low_stock_amount.val
  ELSE DefaultLowStockThreshold
IsLowStock(product) ==
  /\ HasStock(product)
  /\ product.stock_quantity.val <= Threshold(product)
  /\ product.stock_quantity.val >= 0
LowStockEntry(product) ==
  [name |-> product.name, stock |-> product.stock_quantity.val,
   threshold |-> Threshold(product)]

RECURSIVE LowStockProducts(_)
LowStockProducts(products) ==
  IF products = <<>> THEN <<>>
  ELSE (IF IsLowStock(Head(products)) THEN <<LowStockEntry(Head(products))>> ELSE <<>>)
         \o LowStockProducts(Tail(products))

\* an insertion that would put a product in front of its equals
RECURSIVE InsertSortedUnstable(_, _)
InsertSortedUnstable(x, s) ==
  IF s = <<>> THEN <<x>>
  ELSE IF x.stock <= Head(s).stock THEN <<x>> \o s
  ELSE <<Head(s)>> \o InsertSortedUnstable(x, Tail(s))

\* list.sort(key=stock): stable, ascending
RECURSIVE InsertSorted(_, _)
InsertSorted(x, s) ==
  IF s = <<>> THEN <<x>>
  ELSE IF x.stock < Head(s).stock THEN <<x>> \o s
  ELSE <<Head(s)>> \o InsertSorted(x, Tail(s))

RECURSIVE SortByStock(_)
SortByStock(s) ==
  IF s = <<>> THEN <<>>
  ELSE InsertSorted(s[Len(s)], SortByStock(SubSeq(s, 1, Len(s) - 1)))

Take(s, n) == SubSeq(s, 1, IF Len(s) < n THEN Len(s) ELSE n)

\* f"${total_sales:,.2f}"
FormatSales(cents) == [symbol |-> "$", units |-> cents \div 100, cents |-> cents % 100]

Payload(m, products, now) ==
  [total_sales |-> FormatSales(m.total_sales),
   total_orders |-> m.total_orders,
   products_sold |-> m.products_sold,
   pending_orders |-> m.pending_orders,
   processing_orders |-> m.processing_orders,
   fulfilled_orders |-> m.fulfilled_orders,
   low_stock_count |-> Len(SortByStock(LowStockProducts(products))),
   low_stock_items |-> Take(SortByStock(LowStockProducts(products)), TopN),
   last_updated |-> now]

\* ------------------------------------------------------------------ helpers
Request(res, p, r) == [res |-> res, page |-> p, resp |-> r, sent |-> None]
Post(r, payload) == [res |-> "webhook", page |-> 0, resp |-> r, sent |-> <<payload>>]
Line(tag, v) == [tag |-> tag, val |-> v]

\* an off-by-one limit test
OrderLimitReachedLate(p) == p > OrderPageLimit + 1
\* page > 100 after page += 1
OrderLimitReached(p) == p > OrderPageLimit
\* an off-by-one product limit test
ProductLimitReachedLate(p) == p > ProductPageLimit + 1

\* page > 5 after page += 1
ProductLimitReached(p) == p > ProductPageLimit
\* an accumulation that would put the new page in front
ExtendInFront(acc, records) == records \o acc
\* all_orders.extend(orders)
Extend(acc, records) == acc \o records
\* a success test that would accept every 2xx status
PostSucceededAny2xx(status) == status \in 200..299
\* response.status_code == 200 in send_to_trmnl
PostSucceeded(status) == status = HTTP_OK
\* a dispatcher that would ignore the debug flag
SkipsNetworkNever(debug) == FALSE
\* if DEBUG: ... return True
SkipsNetwork(debug) == debug
\* what print(data) shows, and what requests.post(json=data) carries
Printed(d) == [fmt |-> "repr", value |-> d]
JsonBody(d) == [fmt |-> "json", value |-> d]
\* the except clause of get_woocommerce_data: print, return None
ExceptResult(partial) == None

\* --------------------------------------------------------------------- Init
Init ==
  /\ DEBUG \in BOOLEAN
  /\ pc = "fetch_orders"
  /\ page = 1
  /\ all_orders = <<>>
  /\ all_products = <<>>
  /\ metrics = None
  /\ data = None
  /\ http = <<>>
  /\ stdout = <<>>
  /\ sent = "not_called"
  /\ order_stop = "running"
  /\ product_stop = "running"

\* ------------------------------------------------------------------ actions
\* One iteration of the order loop (lines 46-71), including the except
\* clause (lines 161-163) when the request or response.json() raises.
FetchOrdersPage ==
  /\ pc = "fetch_orders"
  /\ \E r \in OrderResps(page) :
       /\ http' = Append(http, Request("orders", page, r))
       /\ IF r.kind = "exc" \/ ~r.json
            THEN /\ data' = ExceptResult(all_orders)
                 /\ stdout' = stdout \o
                      (IF r.kind = "resp" /\ r.status # HTTP_OK
                         THEN <<Line("orders_error", r.status)>> ELSE <<>>)
                      \o <<Line("exception", "orders")>>
                 /\ order_stop' = "raised"
                 /\ pc' = "main"
                 /\ UNCHANGED <<page, all_orders>>
            ELSE IF r.status # HTTP_OK
            THEN /\ stdout' = stdout \o <<Line("orders_error", r.status)>>
                 /\ order_stop' = "status"
                 /\ pc' = "aggregate"
                 /\ UNCHANGED <<page, all_orders, data>>
            ELSE IF r.body = <<>>
            THEN /\ order_stop' = "empty"
                 /\ pc' = "aggregate"
                 /\ UNCHANGED <<page, all_orders, data, stdout>>
            ELSE /\ all_orders' = Extend(all_orders, r.body)
                 /\ page' = page + 1
                 /\ IF OrderLimitReached(page + 1)
                      THEN /\ stdout' = stdout \o <<Line("orders_limit_warning", OrderPageLimit)>>
                           /\ order_stop' = "limit"
                           /\ pc' = "aggregate"
                      ELSE UNCHANGED <<stdout, order_stop, pc>>
                 /\ UNCHANGED data
  /\ UNCHANGED <<DEBUG, all_products, metrics, sent, product_stop>>

\* lines 73-94 without the reset of page for the product loop
AggregateKeepsPage ==
  /\ pc = "aggregate"
  /\ IF TotalsRaise(all_orders)
       THEN /\ data' = ExceptResult(all_orders)
            /\ stdout' = Append(stdout, Line("exception", "aggregate"))
            /\ pc' = "main"
            /\ UNCHANGED metrics
       ELSE /\ metrics' = <<Metrics(all_orders)>>
            /\ pc' = "fetch_products"
            /\ UNCHANGED <<data, stdout>>
  /\ UNCHANGED <<DEBUG, page, all_orders, all_products, http, sent, order_stop, product_stop>>

\* Lines 73-94: the metrics, then page = 1 for the product loop.
Aggregate ==
  /\ pc = "aggregate"
  /\ IF TotalsRaise(all_orders)
       THEN /\ data' = ExceptResult(all_orders)
            /\ stdout' = Append(stdout, Line("exception", "aggregate"))
            /\ pc' = "main"
            /\ UNCHANGED <<metrics, page>>
       ELSE /\ metrics' = <<Metrics(all_orders)>>
            /\ page' = 1
            /\ pc' = "fetch_products"
            /\ UNCHANGED <<data, stdout>>
  /\ UNCHANGED <<DEBUG, all_orders, all_products, http, sent, order_stop, product_stop>>

\* One iteration of the product loop (lines 96-117).
FetchProductsPage ==
  /\ pc = "fetch_products"
  /\ \E r \in ProductResps(page) :
       /\ http' = Append(http, Request("products", page, r))
       /\ IF r.kind = "exc" \/ (r.status = HTTP_OK /\ ~r.json)
            THEN /\ data' = ExceptResult(all_products)
                 /\ stdout' = Append(stdout, Line("exception", "products"))
                 /\ product_stop' = "raised"
                 /\ pc' = "main"
                 /\ UNCHANGED <<page, all_products>>
            ELSE IF r.status # HTTP_OK
            THEN /\ stdout' = Append(stdout, Line("products_error", r.status))
                 /\ product_stop' = "status"
                 /\ pc' = "build"
                 /\ UNCHANGED <<page, all_products, data>>
            ELSE IF r.body = <<>>
            THEN /\ product_stop' = "empty"
                 /\ pc' = "build"
                 /\ UNCHANGED <<page, all_products, data, stdout>>
            ELSE /\ all_products' = Extend(all_products, r.body)
                 /\ page' = page + 1
                 /\ IF ProductLimitReached(page + 1)
                      THEN /\ product_stop' = "limit"
                           /\ pc' = "build"
                      ELSE UNCHANGED <<product_stop, pc>>
                 /\ UNCHANGED <<data, stdout>>
  /\ UNCHANGED <<DEBUG, all_orders, metrics, sent, order_stop>>

\* Lines 119-159: the low-stock list and the payload.
BuildPayload ==
  /\ pc = "build"
  /\ \E now \in Times :
       data' = <<[merge_variables |-> Payload(metrics[1], all_products, now)]>>
  /\ pc' = "main"
  /\ UNCHANGED <<DEBUG, page, all_orders, all_products, metrics, http, stdout,
                 sent, order_stop, product_stop>>

\* main, lines 199-205: if data: send_to_trmnl(data) else print.
MainDispatch ==
  /\ pc = "main"
  /\ IF data # None
       THEN /\ pc' = "send"
            /\ UNCHANGED stdout
       ELSE /\ pc' = "done"
            /\ stdout' = Append(stdout, Line("failed_to_fetch", 0))
  /\ UNCHANGED <<DEBUG, page, all_orders, all_products, metrics, data, http,
                 sent, order_stop, product_stop>>

\* send_to_trmnl, lines 166-192.
SendToTrmnl ==
  /\ pc = "send"
  /\ IF SkipsNetwork(DEBUG)
       THEN /\ stdout' = Append(stdout, Line("debug", Printed(data[1])))
            /\ sent' = "True"
            /\ UNCHANGED http
       ELSE \E r \in WebhookResps :
              /\ http' = Append(http, Post(r, JsonBody(data[1])))
              /\ IF r.kind = "exc"
                   THEN /\ stdout' = Append(stdout, Line("send_exception", 0))
                        /\ sent' = "False"
                   ELSE IF PostSucceeded(r.status)
                   THEN /\ stdout' = Append(stdout, Line("send_ok", r.status))
                        /\ sent' = "True"
                   ELSE /\ stdout' = Append(stdout, Line("send_error", r.status))
                        /\ sent' = "False"
  /\ pc' = "done"
  /\ UNCHANGED <<DEBUG, page, all_orders, all_products, metrics, data,
                 order_stop, product_stop>>

Next ==
  \/ FetchOrdersPage
  \/ Aggregate
  \/ FetchProductsPage
  \/ BuildPayload
  \/ MainDispatch
  \/ SendToTrmnl

Spec == Init /\ [][Next]_vars

TypeOK ==
  /\ DEBUG \in BOOLEAN
  /\ pc \in {"fetch_orders", "aggregate", "fetch_products", "build", "main", "send", "done"}
  /\ page \in 1..(OrderPageLimit + 1)
  /\ sent \in {"not_called", "True", "False"}
  /\ Len(data) <= 1
\* ------------------------------------------------------------------ history
OrderReqs == SelectSeq(http, LAMBDA e : e.res = "orders")
ProductReqs == SelectSeq(http, LAMBDA e : e.res = "products")
Posts == SelectSeq(http, LAMBDA e : e.res = "webhook")
IsPage(e) == e.resp.kind = "resp" /\ e.resp.status = HTTP_OK /\ e.resp.json
NonEmptyPage(e) == IsPage(e) /\ e.resp.body # <<>>
EmptyPage(e) == IsPage(e) /\ e.resp.body = <<>>
HttpError(e) == e.resp.kind = "resp" /\ e.resp.status # HTTP_OK

RECURSIVE ConcatBodies(_)
ConcatBodies(reqs) ==
  IF reqs = <<>> THEN <<>>
  ELSE Head(reqs).resp.body \o ConcatBodies(Tail(reqs))

NonCancelled(orders) == SelectSeq(orders, LAMBDA o : o.status # "cancelled")
AggregationDone == pc \notin {"fetch_orders", "aggregate"} /\ order_stop # "raised"

\* ------------------------------------------------------------------- claims

\* C1: when the upstream answers page 1 of orders with HTTP 500, the run is
\* aborted (get_woocommerce_data yields nothing) and no webhook POST is
\* issued.
C1_Orders500AbortsRun ==
  (Len(http) >= 1 /\ http[1].res = "orders" /\ http[1].page = 1
     /\ http[1].resp.kind = "resp" /\ http[1].resp.status = 500)
  => (Posts = <<>> /\ data = None)

\* C2: a non-success status on any order or product page discards the
\* records of that resource and fails the run: no payload, no webhook POST.
C2_HttpErrorFailsRun ==
  (\E i \in 1..Len(http) : http[i].res \in {"orders", "products"} /\ HttpError(http[i]))
  => (Posts = <<>> /\ pc # "send" /\ (pc = "done" => data = None))

\* C3: when a page request raises, or an order's total is non-numeric,
\* get_woocommerce_data yields None, send_to_trmnl is never called and no
\* POST is issued; the bad total never reaches a payload as zero.
C3_RaiseYieldsNothing ==
  ( \/ \E i \in 1..Len(http) : http[i].res # "webhook" /\ http[i].resp.kind = "exc"
    \/ (AggregationDone /\ \E i \in 1..Len(all_orders) : all_orders[i].total.kind = "str") )
  => (data = None /\ sent = "not_called" /\ Posts = <<>> /\ pc \in {"main", "done"})

C3_Witness ==
  /\ pc = "done"
  /\ \E i \in 1..Len(all_orders) : all_orders[i].total.kind = "str"
  /\ Len(OrderReqs) >= 2
  /\ data = None

\* C4: k non-empty order pages followed by an empty one are fetched with
\* requests for pages 1..k+1 in order, once each, and all_orders is the
\* concatenation of the k pages in server order.
C4_PagesConcatenated ==
  (/\ OrderReqs # <<>>
   /\ EmptyPage(OrderReqs[Len(OrderReqs)])
   /\ \A i \in 1..(Len(OrderReqs) - 1) : NonEmptyPage(OrderReqs[i]))
  => (/\ \A i \in 1..Len(OrderReqs) : OrderReqs[i].page = i
      /\ all_orders = ConcatBodies(OrderReqs)
      /\ pc # "fetch_orders")

C4_Witness ==
  /\ Len(OrderReqs) = 3
  /\ EmptyPage(OrderReqs[3])
  /\ NonEmptyPage(OrderReqs[1]) /\ NonEmptyPage(OrderReqs[2])
  /\ OrderReqs[1].resp.body # OrderReqs[2].resp.body
  /\ Len(all_orders) >= 3

\* C5: at most 100 order pages are requested; after 100 non-empty pages the
\* loop stops without a 101st request, keeps every record, and the run goes
\* on to the metrics and, unless something raises, to the webhook dispatch.
C5_OrderLimitKeepsRunning ==
  /\ Len(OrderReqs) <= OrderPageLimit
  /\ (Len(OrderReqs) = OrderPageLimit /\ NonEmptyPage(OrderReqs[OrderPageLimit]))
     => (/\ pc # "fetch_orders"
         /\ all_orders = ConcatBodies(OrderReqs)
         /\ (pc = "done"
             /\ ~TotalsRaise(all_orders)
             /\ ~\E i \in 1..Len(ProductReqs) :
                   ProductReqs[i].resp.kind = "exc" \/ ~ProductReqs[i].resp.json)
            => (data # None /\ sent # "not_called"))

C5_Witness ==
  /\ Len(OrderReqs) = OrderPageLimit
  /\ NonEmptyPage(OrderReqs[OrderPageLimit])
  /\ pc = "done"
  /\ sent = "True"
  /\ Len(all_orders) >= OrderPageLimit

\* C6: whenever a fetch stops at its page limit (orders after 100 pages,
\* products after 5) a warning line is printed.
C6_LimitStopWarns ==
  /\ (Len(OrderReqs) = OrderPageLimit /\ NonEmptyPage(OrderReqs[OrderPageLimit]))
     => \E i \in 1..Len(stdout) : stdout[i].tag = "orders_limit_warning"
  /\ (Len(ProductReqs) = ProductPageLimit /\ NonEmptyPage(ProductReqs[ProductPageLimit]))
     => \E i \in 1..Len(stdout) : stdout[i].tag = "products_limit_warning"

\* C7: with DEBUG on, send_to_trmnl issues no POST, returns True, and the
\* payload it prints is the payload a POST carries when DEBUG is off (the
\* value handed to send_to_trmnl).
C7_DebugDryRun ==
  /\ DEBUG => Posts = <<>>
  /\ (DEBUG /\ pc = "done" /\ data # None)
     => (/\ sent = "True"
         /\ stdout[Len(stdout)].tag = "debug"
         /\ stdout[Len(stdout)].val.value = JsonBody(data[1]).value)
  /\ \A i \in 1..Len(Posts) : Posts[i].sent[1].value = data[1]

C7_Witness ==
  /\ DEBUG
  /\ pc = "done"
  /\ sent = "True"
  /\ data # None
  /\ data[1].merge_variables.total_orders > 0

\* C8: with DEBUG off, send_to_trmnl returns True exactly when the webhook
\* answered 200, False on any other status or on an exception; no run
\* issues more than one POST.
C8_SuccessIff200 ==
  /\ Len(Posts) <= 1
  /\ (~DEBUG /\ sent # "not_called")
     => (/\ Len(Posts) = 1
         /\ (sent = "True") <=> (Posts[1].resp.kind = "resp" /\ Posts[1].resp.status = 200)
         /\ sent \in {"True", "False"})

C8_Witness ==
  /\ ~DEBUG
  /\ pc = "done"
  /\ sent = "False"
  /\ Len(Posts) = 1
  /\ Posts[1].resp.kind = "resp"
  /\ Posts[1].resp.status = 204

\* C9: cancelled orders add nothing to total_sales or products_sold: both
\* are sums over the non-cancelled orders only.
C9_CancelledExcluded ==
  data # None =>
    /\ data[1].merge_variables.total_sales = FormatSales(SumTotals(NonCancelled(all_orders)))
    /\ data[1].merge_variables.products_sold = ProductsSold(NonCancelled(all_orders))

\* C10 as stated: total_orders plus the number of cancelled orders equals
\* the number of fetched orders.
C10_TotalPlusCancelled ==
  data # None =>
    data[1].merge_variables.total_orders + CountStatus(all_orders, "cancelled")
      = Len(all_orders)

\* C10 amended: total_orders is the raw count of fetched orders, cancelled
\* ones included.
C10_TotalIsRawCount ==
  data # None => data[1].merge_variables.total_orders = Len(all_orders)

C10_Witness ==
  /\ data # None
  /\ CountStatus(all_orders, "cancelled") > 0
  /\ data[1].merge_variables.total_orders = Len(all_orders)
\* ------------------------------------------------ the low-stock filter alone
\* Products at and around every boundary of the low-stock test.
BoundaryProducts ==
  { Product("AtDefault", Num(5), Null),
    Product("OverDefault", Num(6), Null),
    Product("ZeroThresholdStocked", Num(3), Num(0)),
    Product("ZeroThresholdEmpty", Num(0), Num(0)),
    Product("Untracked", Null, Null),
    Product("Negative", Num(-1), Null),
    Product("TextStock", NonNumeric, Num(9)),
    Product("AtOwn", Num(7), Num(7)),
    Product("OverOwn", Num(8), Num(7)) }

RECURSIVE SeqsUpTo(_, _)
SeqsUpTo(S, n) ==
  IF n = 0 THEN {<<>>}
  ELSE SeqsUpTo(S, n - 1) \cup
       {Append(q, x) : q \in {r \in SeqsUpTo(S, n - 1) : Len(r) = n - 1}, x \in S}

\* The state get_woocommerce_data is in at line 119 when the store has no
\* order in the window and one page of products.
InitProducts ==
  /\ DEBUG \in BOOLEAN
  /\ pc = "build"
  /\ page = 2
  /\ all_orders = <<>>
  /\ \E ps \in SeqsUpTo(BoundaryProducts, MaxListedProducts) \ {<<>>} :
       /\ all_products = ps
       /\ http = << Request("orders", 1, Resp(HTTP_OK, TRUE, <<>>)),
                    Request("products", 1, Resp(HTTP_OK, TRUE, ps)),
                    Request("products", 2, Resp(HTTP_OK, TRUE, <<>>)) >>
  /\ metrics = <<Metrics(<<>>)>>
  /\ data = None
  /\ stdout = <<>>
  /\ sent = "not_called"
  /\ order_stop = "empty"
  /\ product_stop = "empty"

NextProducts ==
  \/ BuildPayload
  \/ MainDispatch
  \/ SendToTrmnl

SpecProducts == InitProducts /\ [][NextProducts]_vars

\* C11: a product is reported as low-stock exactly when its stock_quantity
\* is a number, is >= 0 and is <= its own threshold, the threshold being 5
\* exactly when none is set; an explicit threshold of 0 stays 0.
C11_LowStockRule ==
  data # None =>
    LET items == data[1].merge_variables.low_stock_items
        Expected(p) ==
          /\ p.stock_quantity.kind = "num"
          /\ p.stock_quantity.val >= 0
          /\ p.stock_quantity.val <=
               (IF p.low_stock_amount.kind = "null" THEN 5 ELSE p.low_stock_amount.val)
    IN /\ data[1].merge_variables.low_stock_count =
            Cardinality({i \in 1..Len(all_products) : Expected(all_products[i])})
       /\ Len(all_products) <= TopN =>
            \A i \in 1..Len(all_products) :
               Expected(all_products[i]) <=>
                 \E k \in 1..Len(items) :
                    /\ items[k].name = all_products[i].name
                    /\ items[k].stock = all_products[i].stock_quantity.val
                    /\ items[k].threshold =
                         (IF all_products[i].low_stock_amount.kind = "null"
                            THEN 5 ELSE all_products[i].low_stock_amount.val)

C11_Witness ==
  /\ data # None
  /\ data[1].merge_variables.low_stock_count = 1
  /\ \E i \in 1..Len(all_products) :
       all_products[i] = Product("ZeroThresholdStocked", Num(3), Num(0))
  /\ \E k \in 1..Len(data[1].merge_variables.low_stock_items) :
       data[1].merge_variables.low_stock_items[k] =
         [name |-> "ZeroThresholdEmpty", stock |-> 0, threshold |-> 0]
\* C12: low_stock_items is ascending by stock with ties in fetch order, has
\* at most 5 entries, these are the lowest-stock members of the low-stock
\* set, and low_stock_count is the size of the whole set.
C12_LowestFiveStable ==
  data # None =>
    LET items == data[1].merge_variables.low_stock_items
        count == data[1].merge_variables.low_stock_count
        L == LowStockProducts(all_products)
        Rank(j) == 1 + Cardinality({i \in 1..Len(L) :
                         \/ L[i].stock < L[j].stock
                         \/ (L[i].stock = L[j].stock /\ i < j)})
    IN /\ Len(items) <= 5
       /\ Len(items) = (IF Len(L) < 5 THEN Len(L) ELSE 5)
       /\ \A k \in 1..(Len(items) - 1) : items[k].stock <= items[k + 1].stock
       /\ \A j \in 1..Len(L) :
            IF Rank(j) <= Len(items)
              THEN items[Rank(j)] = L[j]
              ELSE \A k \in 1..Len(items) : items[k].stock <= L[j].stock
       /\ count = Len(L)
       /\ count >= Len(items)

C12_Witness ==
  /\ data # None
  /\ data[1].merge_variables.low_stock_count > 5
  /\ Len(data[1].merge_variables.low_stock_items) = 5
  /\ data[1].merge_variables.low_stock_items[4].name = "Widget"
  /\ data[1].merge_variables.low_stock_items[5].name = "Gear"
  /\ data[1].merge_variables.low_stock_items[4].stock
       = data[1].merge_variables.low_stock_items[5].stock
\* ------------------------------------------------------- the metrics alone
SampleOrders ==
  {OrderPageA[1], OrderPageA[2], OrderPageC[1], OrderPageC[2], OrderPageC[3]}

\* The state get_woocommerce_data is in at line 73 when the window holds
\* one page of orders.
InitOrders ==
  /\ DEBUG \in BOOLEAN
  /\ pc = "aggregate"
  /\ page = 2
  /\ \E os \in SeqsUpTo(SampleOrders, MaxListedOrders) \ {<<>>} :
       /\ all_orders = os
       /\ http = << Request("orders", 1, Resp(HTTP_OK, TRUE, os)),
                    Request("orders", 2, Resp(HTTP_OK, TRUE, <<>>)) >>
  /\ all_products = <<>>
  /\ metrics = None
  /\ data = None
  /\ stdout = <<>>
  /\ sent = "not_called"
  /\ order_stop = "empty"
  /\ product_stop = "running"

NextOrders ==
  \/ Aggregate
  \/ FetchProductsPage
  \/ BuildPayload
  \/ MainDispatch
  \/ SendToTrmnl

SpecOrders == InitOrders /\ [][NextOrders]_vars

Permuted(q, f) == [i \in 1..Len(q) |-> q[f[i]]]
WithItems(orders, i, items) ==
  [orders EXCEPT ![i] = [orders[i] EXCEPT !.line_items = items]]

C14_MissingFieldAborts ==
  (/\ AggregationDone
   /\ \E i \in 1..Len(all_orders) :
        \/ all_orders[i].total.kind = "missing"
        \/ \E k \in 1..Len(all_orders[i].line_items) :
             all_orders[i].line_items[k].quantity.kind = "missing")
  => (metrics = None /\ data = None /\ Posts = <<>> /\ sent = "not_called")
\* ---------------------------------------------------------- request order
Stage(e) == IF e.res = "orders" THEN 1 ELSE IF e.res = "products" THEN 2 ELSE 3

\* C15: the requests of a run follow one another in the order: order pages
\* 1..k, product pages 1..m, at most one webhook POST; no product page is
\* requested while the order fetch runs, and the POST comes only after both
\* fetches stopped and the payload exists.
C15_RequestOrder ==
  /\ \A i \in 1..(Len(http) - 1) :
       /\ Stage(http[i]) <= Stage(http[i + 1])
       /\ Stage(http[i]) < 3
       /\ IF http[i].res = http[i + 1].res
            THEN http[i + 1].page = http[i].page + 1
            ELSE http[i + 1].res = "webhook" \/ http[i + 1].page = 1
  /\ (http # <<>> /\ http[1].res # "webhook") => http[1].page = 1
  /\ (\E i \in 1..Len(http) : http[i].res = "products")
       => (order_stop \in {"empty", "status", "limit"} /\ metrics # None)
  /\ (\E i \in 1..Len(http) : http[i].res = "webhook")
       => (/\ order_stop \in {"empty", "status", "limit"}
           /\ product_stop \in {"empty", "status", "limit"}
           /\ data # None
           /\ http[Len(http)].sent = <<JsonBody(data[1])>>
           /\ pc = "done")

C15_Witness ==
  /\ Len(http) = 5
  /\ http[1].res = "orders" /\ http[2].res = "orders"
  /\ http[3].res = "products" /\ http[4].res = "products"
  /\ http[5].res = "webhook"

\* C16: fulfilled_orders counts the completed orders, pending_orders the
\* orders whose status is exactly pending (processing orders are counted in
\* processing_orders only), and the three counts together never exceed
\* total_orders.
C16_StatusCounts ==
  data # None =>
    LET mv == data[1].merge_variables
        With(st) == Cardinality({i \in 1..Len(all_orders) : all_orders[i].status = st})
    IN /\ mv.fulfilled_orders = With("completed")
       /\ mv.pending_orders = With("pending")
       /\ mv.processing_orders = With("processing")
       /\ mv.pending_orders + mv.processing_orders + mv.fulfilled_orders <= mv.total_orders

C16_Witness ==
  /\ data # None
  /\ data[1].merge_variables.pending_orders = 1
  /\ data[1].merge_variables.processing_orders = 1
  /\ data[1].merge_variables.fulfilled_orders >= 1
  /\ data[1].merge_variables.pending_orders + data[1].merge_variables.processing_orders
       + data[1].merge_variables.fulfilled_orders < data[1].merge_variables.total_orders

\* --------------------------------------------------------------- termination
\* An upper bound on the steps a run still has to take: the order pages
\* left, then the metrics, the product pages, the payload, main's test and
\* the dispatch.
StepsLeft ==
  CASE pc = "fetch_orders" -> (OrderPageLimit + 1 - page) + ProductPageLimit + 4
    [] pc = "aggregate" -> ProductPageLimit + 4
    [] pc = "fetch_products" -> (ProductPageLimit + 1 - page) + 3
    [] pc = "build" -> 3
    [] pc = "main" -> 2
    [] pc = "send" -> 1
    [] OTHER -> 0

\* C17: every run ends (each step takes the run closer to its end, and a
\* run that has not ended can step as soon as its HTTP call returns), after
\* at most 100 order-page requests, 5 product-page requests and 1 webhook
\* POST, and never asks for the same page of a resource twice.  BuildPayload
\* has no guard beyond its pc, written out here.
C17_RunTerminates ==
  /\ [][StepsLeft' < StepsLeft]_vars
  /\ [](/\ StepsLeft >= 0
        /\ (StepsLeft = 0) <=> (pc = "done")
        /\ (pc # "done") =>
             \/ ENABLED FetchOrdersPage
             \/ ENABLED Aggregate
             \/ ENABLED FetchProductsPage
             \/ (pc = "build" /\ metrics # None /\ Times # {})
             \/ ENABLED MainDispatch
             \/ ENABLED SendToTrmnl
        /\ Len(OrderReqs) <= 100
        /\ Len(ProductReqs) <= 5
        /\ Len(Posts) <= 1
        /\ \A i \in 1..(Len(http) - 1) :
             /\ Stage(http[i]) <= Stage(http[i + 1])
             /\ http[i].res = http[i + 1].res => http[i].page < http[i + 1].page)

C17_Witness ==
  /\ pc = "done"
  /\ Len(OrderReqs) = 100
  /\ Len(ProductReqs) = 5
  /\ Len(Posts) = 1
====
